---- MODULE Spec2Model ----
(***************************************************************************)
(* rust-timerfd: the TimerFd handle (src/src/lib.rs), the ITimerSpec       *)
(* schedule structure (src/src/itimer_spec.rs) and the three foreign entry *)
(* points (src/src/sys.rs), together with the kernel timer object the      *)
(* handle drives.  Kernel time advances in whole seconds (Tick); the       *)
(* schedules armed on the handle are built with the whole-second           *)
(* constructors, as the crate's own test does.                             *)
(***************************************************************************)
EXTENDS Integers, Sequences, FiniteSets, TLC

\* ------------------------------------------------------------------ bounds
MaxSecs == 2
MaxTime == 3

\* --------------------------------------------------------------- constants
TIMERFD_DATA_SIZE == 8
TFD_CLOEXEC == 524288
TFD_NONBLOCK == 2048
TFD_TIMER_ABSTIME == 1
NANOS_PER_SEC == 1000 * 1000 * 1000

ClockIds == {"Realtime", "Monotonic"}
TFDFlagSets == SUBSET {TFD_CLOEXEC, TFD_NONBLOCK}
TFDTimerFlagSets == SUBSET {TFD_TIMER_ABSTIME}

RECURSIVE SumSet(_)
SumSet(s) == IF s = {} THEN 0 ELSE LET x == CHOOSE y \in s : TRUE IN x + SumSet(s \ {x})

\* bitflags: bits() is the union of the member bits
bits(flags) == SumSet(flags)

\* test of one bit (a power of two) in an integer flag word
HasBit(word, bit) == (word \div bit) % 2 = 1

\* --------------------------------------------------- TimeSpec / ITimerSpec
TimeSpec_seconds(v) == [tv_sec |-> v, tv_nsec |-> 0]

TimeSpec_zero == TimeSpec_seconds(0)

\* floor division and modulus by NANOS_PER_SEC
TimeSpec_nanoseconds(n) == [tv_sec |-> n \div NANOS_PER_SEC, tv_nsec |-> n % NANOS_PER_SEC]

\* std::time::Duration: whole seconds and sub-second nanoseconds
Duration(s, n) == [secs |-> s, nanos |-> n]

duration_to_timespec(d) == TimeSpec_nanoseconds(d.secs + d.nanos)

ITimerSpec_new(interval, value) ==
    [it_interval |-> duration_to_timespec(interval), it_value |-> duration_to_timespec(value)]

ITimerSpec_seconds(value) ==
    [it_interval |-> TimeSpec_zero, it_value |-> TimeSpec_seconds(value)]

ITimerSpec_nanoseconds(value) ==
    [it_interval |-> TimeSpec_zero, it_value |-> TimeSpec_nanoseconds(value)]

interval_seconds(self, value) ==
    [it_interval |-> TimeSpec_seconds(value), it_value |-> self.it_value]

interval_nanoseconds(self, value) ==
    [it_interval |-> TimeSpec_nanoseconds(value), it_value |-> self.it_value]

ITimerSpec_from(duration) ==
    [it_interval |-> TimeSpec_zero, it_value |-> duration_to_timespec(duration)]

ZeroSpec == ITimerSpec_seconds(0)

\* ----------------------------------------------------------------- results
\* nix::Result<T>: Ok(value) or Err(errno); "Panic" is an unwinding abort
OkUnit == [tag |-> "Ok", some |-> FALSE, val |-> 0, err |-> "none"]
OkNone == [tag |-> "Ok", some |-> FALSE, val |-> 0, err |-> "none"]
OkSome(v) == [tag |-> "Ok", some |-> TRUE, val |-> v, err |-> "none"]
Err(e) == [tag |-> "Err", some |-> FALSE, val |-> 0, err |-> e]
Panic == [tag |-> "Panic", some |-> FALSE, val |-> 0, err |-> "none"]

\* Errno::result: the -1 sentinel becomes Err(errno), anything else Ok(ret)
Errno_result(k) == IF k.ret = -1 THEN Err(k.errno) ELSE OkSome(k.ret)

\* Option<u64> as yielded by the iterator
Some_(v) == [tag |-> "Some", some |-> TRUE, val |-> v, err |-> "none"]
None_ == [tag |-> "None", some |-> FALSE, val |-> 0, err |-> "none"]

\* ------------------------------------------------- the 8-byte counter image
RECURSIVE BytesLE(_, _)
BytesLE(n, k) == IF k = 0 THEN <<>> ELSE <<n % 256>> \o BytesLE(n \div 256, k - 1)

RECURSIVE FromLE(_)
FromLE(b) == IF b = <<>> THEN 0 ELSE Head(b) + 256 * FromLE(Tail(b))

\* mem::transmute::<[u8; 8], u64> on a little-endian target
transmute(buf) == FromLE(buf)

\* mem::uninitialized(): the buffer holds whatever the stack held
UninitBufs == {<<b, b, b, b, b, b, b, b>> : b \in {0, 255}}

\* ------------------------------------------------------------ kernel side
\* kernel timer object: recurrence period, absolute expiry (0: disarmed),
\* expirations accumulated since the last read
KZero == [tintv |-> 0, exp |-> 0, ticks |-> 0]

FdPool == {3}

KTime(ts) == ts.tv_sec

KTimeSpec(t) == TimeSpec_seconds(t)

KValid(ts) == ts.tv_sec >= 0 /\ ts.tv_nsec >= 0 /\ ts.tv_nsec < NANOS_PER_SEC

\* expirations due at time n are counted; a recurring timer is moved forward
KFire(t, n) ==
    IF t.exp = 0 \/ t.exp > n THEN t
    ELSE IF t.tintv = 0 THEN [t EXCEPT !.exp = 0, !.ticks = @ + 1]
    ELSE LET k == ((n - t.exp) \div t.tintv) + 1
         IN  [t EXCEPT !.exp = @ + k * t.tintv, !.ticks = @ + k]

KRemaining(t, n) == IF t.exp = 0 THEN 0 ELSE t.exp - n

KSpec(t, n) == [it_interval |-> KTimeSpec(t.tintv), it_value |-> KTimeSpec(KRemaining(t, n))]

sys_timerfd_create(clock_id, flagword, exhausted, open) ==
    IF clock_id \notin ClockIds THEN [ret |-> -1, errno |-> "EINVAL"]
    ELSE IF exhausted \/ FdPool \ open = {} THEN [ret |-> -1, errno |-> "EMFILE"]
    ELSE [ret |-> CHOOSE f \in FdPool \ open : \A g \in FdPool \ open : f <= g, errno |-> "none"]

\* O_NONBLOCK of the open file timerfd_create makes
KNonblock(flagword) == HasBit(flagword, TFD_NONBLOCK)

sys_timerfd_settime(isopen, t, n, flagword, utmr) ==
    IF ~isopen THEN [ret |-> -1, errno |-> "EBADF", tmr |-> t, old |-> ZeroSpec]
    ELSE IF ~(KValid(utmr.it_value) /\ KValid(utmr.it_interval))
    THEN [ret |-> -1, errno |-> "EINVAL", tmr |-> t, old |-> ZeroSpec]
    ELSE LET v == KTime(utmr.it_value)
             e == IF v = 0 THEN 0 ELSE IF HasBit(flagword, TFD_TIMER_ABSTIME) THEN v ELSE n + v
             fresh == [tintv |-> KTime(utmr.it_interval), exp |-> e, ticks |-> 0]
         IN  [ret |-> 0, errno |-> "none", tmr |-> KFire(fresh, n), old |-> KSpec(t, n)]

sys_timerfd_gettime(isopen, t, n) ==
    IF ~isopen THEN [ret |-> -1, errno |-> "EBADF", otmr |-> ZeroSpec]
    ELSE [ret |-> 0, errno |-> "none", otmr |-> KSpec(t, n)]

\* read(2) of TIMERFD_DATA_SIZE bytes.  With no expiration pending a
\* non-blocking descriptor fails with EAGAIN; a blocking one sleeps, and the
\* read returns before an expiration only when a signal interrupts it (EINTR).
sys_read(isopen, t, nonblock, buf) ==
    IF ~isopen THEN [ret |-> -1, errno |-> "EBADF", buf |-> buf, tmr |-> t]
    ELSE IF t.ticks > 0
    THEN [ret |-> TIMERFD_DATA_SIZE, errno |-> "none",
          buf |-> BytesLE(t.ticks, TIMERFD_DATA_SIZE), tmr |-> [t EXCEPT !.ticks = 0]]
    ELSE IF nonblock THEN [ret |-> -1, errno |-> "EAGAIN", buf |-> buf, tmr |-> t]
    ELSE [ret |-> -1, errno |-> "EINTR", buf |-> buf, tmr |-> t]

\* close(2): the descriptor is released even when the call reports an error
sys_close(isopen, ioerr) ==
    IF ~isopen THEN [ret |-> -1, errno |-> "EBADF"]
    ELSE IF ioerr THEN [ret |-> -1, errno |-> "EIO"]
    ELSE [ret |-> 0, errno |-> "none"]

SysOf(k) == [ret |-> k.ret, errno |-> k.errno]
NoSys == [ret |-> 0, errno |-> "none"]

\* ----------------------------------------------------- the wrappers (lib.rs)
\* what timerfd_create hands to the kernel
\* variant: the flags are not passed on
create_args_NoFlags(clock_id, flags) == [clock_id |-> clock_id, flagword |-> 0]

create_args(clock_id, flags) == [clock_id |-> clock_id, flagword |-> bits(flags)]

timerfd_create(k) == Errno_result(k)

\* what timerfd_settime hands to the kernel
\* variant: the two fields of the schedule in the wrong order
settime_args_Swapped(flags, utmr) ==
    [flagword |-> bits(flags), utmr |-> [it_interval |-> utmr.it_value, it_value |-> utmr.it_interval]]

settime_args(flags, utmr) == [flagword |-> bits(flags), utmr |-> utmr]

timerfd_settime(k) == IF k.ret = -1 THEN Err(k.errno) ELSE OkUnit

\* the result, and the caller's otmr after the call
\* variant: the caller's otmr is not the one the kernel fills
timerfd_gettime_NoOut(k, otmr) ==
    [res |-> IF k.ret = -1 THEN Err(k.errno) ELSE OkUnit, otmr |-> otmr]

timerfd_gettime(k, otmr) ==
    [res |-> IF k.ret = -1 THEN Err(k.errno) ELSE OkUnit,
     otmr |-> IF k.ret = -1 THEN otmr ELSE k.otmr]

\* nix::unistd::read: Errno::result of the byte count
unistd_read(k) == Errno_result(k)

\* the match of read_time over the result of the read
\* variant: EAGAIN not told apart from the other errors
read_time_match_NoEagain(r, buf) ==
    IF r.tag = "Ok" /\ r.val = TIMERFD_DATA_SIZE THEN OkSome(transmute(buf))
    ELSE IF r.tag = "Ok" THEN Panic
    ELSE Err(r.err)

\* variant: a short read taken for no data, the errno replaced
read_time_match_Remap(r, buf) ==
    IF r.tag = "Ok" /\ r.val = TIMERFD_DATA_SIZE THEN OkSome(transmute(buf))
    ELSE IF r.tag = "Ok" THEN OkNone
    ELSE IF r.err = "EAGAIN" THEN OkNone
    ELSE Err("EIO")

read_time_match(r, buf) ==
    IF r.tag = "Ok" /\ r.val = TIMERFD_DATA_SIZE THEN OkSome(transmute(buf))
    ELSE IF r.tag = "Ok" THEN Panic
    ELSE IF r.err = "EAGAIN" THEN OkNone
    ELSE Err(r.err)

\* read_time().unwrap_or(None); a panic unwinds through it
\* variant: a count of zero yielded when there is no data
next_result_ZeroItem(r) ==
    IF r.tag = "Panic" THEN Panic
    ELSE IF r.tag = "Ok" /\ r.some THEN Some_(r.val)
    ELSE Some_(0)

next_result(r) ==
    IF r.tag = "Panic" THEN Panic
    ELSE IF r.tag = "Ok" /\ r.some THEN Some_(r.val)
    ELSE None_

\* ------------------------------------------------------------------ state
VARIABLES
    hstate,     \* the TimerFd value: "none", "live" or "dropped"
    hfd,        \* TimerFd.0
    hnonblock,  \* whether the handle was asked for with TFD_NONBLOCK
    kopen,      \* kernel: open descriptors
    knonblock,  \* kernel: O_NONBLOCK of the timer's open file
    ktmr,       \* kernel: the timer object
    now,        \* kernel: the clock, in seconds
    closes,     \* close(2) calls made on hfd since it was created
    last,       \* the last call on the handle: what it returned and what it saw
    arm,        \* history of the last successful arm
    conv        \* a schedule under construction from durations

vars == <<hstate, hfd, hnonblock, kopen, knonblock, ktmr, now, closes, last, arm, conv>>

SecsIn == 0 .. MaxSecs

\* schedules the callers arm with: whole seconds, and one the kernel rejects
Schedules ==
    {interval_seconds(ITimerSpec_seconds(v), w) : v \in SecsIn, w \in SecsIn}
        \cup {ITimerSpec_seconds(-1)}

ArmNone ==
    [set |-> FALSE, abs |-> FALSE, S |-> ZeroSpec, at |-> 0, expired |-> FALSE,
     everExpired |-> FALSE, got |-> FALSE, lastGet |-> 0, prior |-> FALSE]

LastOf(op, res, sys, nreads, out) ==
    [op |-> op, res |-> res, sys |-> sys, nreads |-> nreads, out |-> out, pre |-> ktmr,
     preExpired |-> arm.expired, preEver |-> arm.everExpired, preGot |-> arm.got,
     preGet |-> arm.lastGet]

\* a call that replaces the timer: the history fields start afresh
LastFresh(op, res, sys, out) ==
    [op |-> op, res |-> res, sys |-> sys, nreads |-> 0, out |-> out, pre |-> KZero,
     preExpired |-> FALSE, preEver |-> FALSE, preGot |-> FALSE, preGet |-> 0]

LastIdle ==
    [op |-> "idle", res |-> OkUnit, sys |-> NoSys, nreads |-> 0, out |-> ZeroSpec, pre |-> KZero,
     preExpired |-> FALSE, preEver |-> FALSE, preGot |-> FALSE, preGet |-> 0]

ConvIdle == [ctor |-> "none", interval |-> Duration(0, 0), value |-> Duration(0, 0), out |-> ZeroSpec]

Init ==
    /\ hstate = "none"
    /\ hfd = -1
    /\ hnonblock = FALSE
    /\ kopen = {}
    /\ knonblock = FALSE
    /\ ktmr = KZero
    /\ now = 0
    /\ closes = 0
    /\ last = LastIdle
    /\ arm = ArmNone
    /\ conv = ConvIdle

\* --------------------------------------------------------------- creation
with_flags(op, clock_id, flags) ==
    /\ hstate # "live"
    /\ \E exhausted \in BOOLEAN :
         LET a == create_args(clock_id, flags)
             k == sys_timerfd_create(a.clock_id, a.flagword, exhausted, kopen)
             r == timerfd_create(k)
         IN  /\ IF r.tag = "Ok"
                THEN /\ hstate' = "live"
                     /\ hfd' = r.val
                     /\ kopen' = kopen \cup {k.ret}
                     /\ knonblock' = KNonblock(a.flagword)
                ELSE /\ hstate' = "none"
                     /\ hfd' = -1
                     /\ UNCHANGED <<kopen, knonblock>>
             /\ hnonblock' = (r.tag = "Ok" /\ TFD_NONBLOCK \in flags)
             /\ ktmr' = KZero
             /\ closes' = 0
             /\ arm' = ArmNone
             /\ last' = LastFresh(op, r, SysOf(k), ZeroSpec)
    /\ UNCHANGED <<now, conv>>

New == \E clock_id \in ClockIds : with_flags("new", clock_id, {})

WithFlags == \E clock_id \in ClockIds, flags \in TFDFlagSets : with_flags("with_flags", clock_id, flags)

\* -------------------------------------------------------------- arm, query
\* otmr, when the caller passes one, receives k.old; the handle keeps nothing of it
set_time_with_flags(op, flags, itmr) ==
    /\ hstate = "live"
    /\ LET a == settime_args(flags, itmr)
           k == sys_timerfd_settime(hfd \in kopen, ktmr, now, a.flagword, a.utmr)
           r == timerfd_settime(k)
           fired == k.tmr.ticks > 0
       IN  /\ ktmr' = k.tmr
           /\ arm' = IF r.tag = "Ok"
                     THEN [set |-> TRUE, abs |-> TFD_TIMER_ABSTIME \in flags, S |-> itmr, at |-> now,
                           expired |-> fired, everExpired |-> fired, got |-> FALSE,
                           lastGet |-> itmr.it_value.tv_sec,
                           prior |-> arm.prior \/ (arm.set /\ arm.S.it_value # TimeSpec_zero)]
                     ELSE arm
           /\ last' = IF r.tag = "Ok"
                      THEN LastFresh(op, r, SysOf(k), ZeroSpec)
                      ELSE LastOf(op, r, SysOf(k), 0, ZeroSpec)
    /\ UNCHANGED <<hstate, hfd, hnonblock, kopen, knonblock, now, closes, conv>>

SetTime == \E itmr \in Schedules : set_time_with_flags("set_time", {}, itmr)

SetTimeWithFlags ==
    \E flags \in TFDTimerFlagSets, itmr \in Schedules :
        set_time_with_flags("set_time_with_flags", flags, itmr)

GetTime ==
    /\ hstate = "live"
    /\ LET k == sys_timerfd_gettime(hfd \in kopen, ktmr, now)
           g == timerfd_gettime(k, ZeroSpec)
       IN  /\ last' = LastOf("get_time", g.res, SysOf(k), 0, g.otmr)
           /\ arm' = IF g.res.tag = "Ok" THEN [arm EXCEPT !.lastGet = g.otmr.it_value.tv_sec] ELSE arm
    /\ UNCHANGED <<hstate, hfd, hnonblock, kopen, knonblock, ktmr, now, closes, conv>>

\* ---------------------------------------------------------- read, iterate
\* next() is read_time followed by next_result
read_time(op) ==
    /\ hstate = "live"
    /\ \E buf \in UninitBufs :
         LET k == sys_read(hfd \in kopen, ktmr, knonblock, buf)
             r == read_time_match(unistd_read(k), k.buf)
         IN  /\ ktmr' = k.tmr
             /\ arm' = IF k.ret # -1 THEN [arm EXCEPT !.expired = FALSE, !.got = TRUE] ELSE arm
             /\ last' = LastOf(op, IF op = "next" THEN next_result(r) ELSE r, SysOf(k), 1, ZeroSpec)
    /\ UNCHANGED <<hstate, hfd, hnonblock, kopen, knonblock, now, closes, conv>>

ReadTime == read_time("read_time")

IterNext == read_time("next")

AsRawFd ==
    /\ hstate = "live"
    /\ last' = LastOf("as_raw_fd", OkSome(hfd), NoSys, 0, ZeroSpec)
    /\ UNCHANGED <<hstate, hfd, hnonblock, kopen, knonblock, ktmr, now, closes, arm, conv>>

\* ------------------------------------------------------------ destruction
\* variant: the descriptor is not closed
Drop_Leak ==
    /\ hstate = "live"
    /\ hstate' = "dropped"
    /\ last' = LastOf("drop", OkUnit, NoSys, 0, ZeroSpec)
    /\ arm' = ArmNone
    /\ UNCHANGED <<hfd, hnonblock, kopen, knonblock, ktmr, now, closes, conv>>

Drop ==
    /\ hstate = "live"
    /\ \E ioerr \in BOOLEAN :
         LET k == sys_close(hfd \in kopen, ioerr)
         IN  /\ kopen' = kopen \ {hfd}
             /\ closes' = closes + 1
             /\ last' = LastOf("drop", OkUnit, SysOf(k), 0, ZeroSpec)
    /\ hstate' = "dropped"
    /\ ktmr' = KZero
    /\ knonblock' = FALSE
    /\ arm' = ArmNone
    /\ UNCHANGED <<hfd, hnonblock, now, conv>>

\* ------------------------------------------------------------- environment
\* one second passes on the timer's clock
Tick ==
    /\ now < MaxTime
    /\ now' = now + 1
    /\ ktmr' = IF hstate = "live" THEN KFire(ktmr, now + 1) ELSE ktmr
    /\ arm' = IF hstate = "live" /\ KFire(ktmr, now + 1).ticks > ktmr.ticks
              THEN [arm EXCEPT !.expired = TRUE, !.everExpired = TRUE]
              ELSE arm
    /\ last' = LastIdle
    /\ UNCHANGED <<hstate, hfd, hnonblock, kopen, knonblock, closes, conv>>

Next ==
    \/ New
    \/ WithFlags
    \/ SetTime
    \/ SetTimeWithFlags
    \/ GetTime
    \/ ReadTime
    \/ IterNext
    \/ AsRawFd
    \/ Drop
    \/ Tick

Spec == Init /\ [][Next]_vars

\* ------------------------------------- schedules built from durations
SubNanos == {0, 1, NANOS_PER_SEC - 1}

Durations == {Duration(s, n) : s \in 0 .. MaxSecs, n \in SubNanos}

InitConv ==
    /\ hstate = "none"
    /\ hfd = -1
    /\ hnonblock = FALSE
    /\ kopen = {}
    /\ knonblock = FALSE
    /\ ktmr = KZero
    /\ now = 0
    /\ closes = 0
    /\ last = LastIdle
    /\ arm = ArmNone
    /\ \E i \in Durations, v \in Durations :
         conv = [ctor |-> "input", interval |-> i, value |-> v, out |-> ZeroSpec]

Built(ctor, out) ==
    /\ conv.ctor = "input"
    /\ conv' = [conv EXCEPT !.ctor = ctor, !.out = out]
    /\ UNCHANGED <<hstate, hfd, hnonblock, kopen, knonblock, ktmr, now, closes, last, arm>>

ConvNew == Built("new", ITimerSpec_new(conv.interval, conv.value))

ConvFrom == Built("from", ITimerSpec_from(conv.value))

ConvSeconds == Built("seconds", ITimerSpec_seconds(conv.value.secs))

ConvNanoseconds == Built("nanoseconds", ITimerSpec_nanoseconds(conv.value.nanos))

ConvIntervalNanoseconds ==
    Built("interval_nanoseconds", interval_nanoseconds(ITimerSpec_seconds(conv.value.secs), conv.interval.nanos))

NextConv ==
    \/ ConvNew
    \/ ConvFrom
    \/ ConvSeconds
    \/ ConvNanoseconds
    \/ ConvIntervalNanoseconds

SpecConv == InitConv /\ [][NextConv]_vars

\* ------------------------------------------------------------- properties
TsLeq(a, b) == a.tv_sec < b.tv_sec \/ (a.tv_sec = b.tv_sec /\ a.tv_nsec <= b.tv_nsec)

\* the last successful arm was relative and one-shot with a non-zero initial
\* value, on a handle created with TFD_NONBLOCK
OneShotArmed ==
    /\ hnonblock
    /\ arm.set
    /\ ~arm.abs
    /\ arm.S.it_interval = TimeSpec_zero
    /\ arm.S.it_value.tv_sec > 0

Elapsed == now - arm.at >= arm.S.it_value.tv_sec

\* C1: on a non-blocking handle armed one-shot with initial value T, the first
\* read_time after T has elapsed returns Ok(Some(n)) with n >= 1 and leaves
\* the kernel counter at zero, and a read_time after it, with no re-arm in
\* between, returns Ok(None).
C1_OneShotRead ==
    (last.op = "read_time" /\ OneShotArmed) =>
        /\ (Elapsed /\ ~last.preGot) =>
               /\ last.res.tag = "Ok" /\ last.res.some /\ last.res.val >= 1
               /\ ktmr.ticks = 0
        /\ last.preGot => last.res = OkNone

C1_Witness ==
    /\ last.op = "read_time"
    /\ OneShotArmed
    /\ last.preGot
    /\ last.res = OkNone

\* C2: on a non-blocking handle, while no expiration has occurred since the
\* creation, the last successful read or the last arm, every read_time
\* returns Ok(None): never an error, never a count.
C2_NoDataBeforeExpiry ==
    (last.op = "read_time" /\ hnonblock /\ ~last.preExpired) => last.res = OkNone

C2_Witness ==
    /\ last.op = "read_time"
    /\ hnonblock
    /\ ~last.preExpired
    /\ arm.set
    /\ arm.S.it_value.tv_sec > 0
    /\ now > arm.at
    /\ last.res = OkNone

\* C3: the descriptor of a successful create is closed exactly once, by the
\* destruction of its handle: open and never closed while the handle lives,
\* closed with exactly one close call once it is dropped; a failed create
\* leaves no handle, no descriptor and no close; a failing close in drop is
\* not surfaced.
C3_ClosedExactlyOnce ==
    /\ hstate = "live" => (hfd \in kopen /\ closes = 0)
    /\ hstate = "dropped" => (hfd \notin kopen /\ closes = 1)
    /\ hstate = "none" => (kopen = {} /\ closes = 0 /\ hfd = -1)
    /\ (last.op \in {"new", "with_flags"} /\ last.res.tag = "Err") => hstate = "none"
    /\ last.op = "drop" => (last.res = OkUnit /\ hstate = "dropped")

C3_Witness ==
    /\ hstate = "dropped"
    /\ last.op = "drop"
    /\ last.sys.ret = -1
    /\ closes = 1
    /\ kopen = {}

Denotes(ts, d) == ts.tv_sec = d.secs /\ ts.tv_nsec = d.nanos

\* C4: the time values ITimerSpec::new and From<Duration> build from a
\* duration of s seconds and n nanoseconds denote exactly s seconds and n
\* nanoseconds, and From<Duration> of a whole-second duration equals
\* ITimerSpec::seconds(s).
C4_DurationExact ==
    /\ conv.ctor = "new" =>
           (Denotes(conv.out.it_interval, conv.interval) /\ Denotes(conv.out.it_value, conv.value))
    /\ conv.ctor = "from" =>
           /\ conv.out.it_interval = TimeSpec_zero
           /\ Denotes(conv.out.it_value, conv.value)
           /\ conv.value.nanos = 0 => conv.out = ITimerSpec_seconds(conv.value.secs)

\* C5: apart from EAGAIN on a read and a failing close in drop, every failure
\* of a system call made by an operation of the handle (next included) reaches
\* the caller as an error.
C5_NoErrorDiscarded ==
    (/\ last.sys.ret = -1
     /\ last.op # "drop"
     /\ ~(last.op \in {"read_time", "next"} /\ last.sys.errno = "EAGAIN"))
        => last.res.tag = "Err"

Errnos == {"EAGAIN", "EINTR", "EBADF", "EINVAL", "EIO", "EFAULT"}

\* C6: read_time maps a full 8-byte read to Ok(Some(c)), c the count the
\* kernel held; EAGAIN to Ok(None); any other errno e to Err(e); a read of
\* fewer than 8 bytes to a panic; it reads once; and on EAGAIN or an error the
\* kernel timer (schedule and counter) is as it was.
C6_ReadTimeMapping ==
    /\ last.op = "read_time" =>
           /\ last.nreads = 1
           /\ last.sys.ret = TIMERFD_DATA_SIZE =>
                  (last.res = OkSome(last.pre.ticks) /\ last.pre.ticks >= 1)
           /\ (last.sys.ret = -1 /\ last.sys.errno = "EAGAIN") =>
                  (last.res = OkNone /\ ktmr = last.pre)
           /\ (last.sys.ret = -1 /\ last.sys.errno # "EAGAIN") =>
                  (last.res = Err(last.sys.errno) /\ ktmr = last.pre)
    /\ \A buf \in UninitBufs :
           /\ \A n \in 0 .. (TIMERFD_DATA_SIZE - 1) :
                  read_time_match(unistd_read([ret |-> n, errno |-> "none"]), buf) = Panic
           /\ \A e \in Errnos \ {"EAGAIN"} :
                  read_time_match(unistd_read([ret |-> -1, errno |-> e]), buf) = Err(e)
           /\ read_time_match(unistd_read([ret |-> -1, errno |-> "EAGAIN"]), buf) = OkNone

C6_Witness ==
    /\ last.op = "read_time"
    /\ last.sys.errno = "EINTR"
    /\ last.res = Err("EINTR")
    /\ arm.set
    /\ ktmr.exp > 0
    /\ ktmr = last.pre

\* a get_time answered after a successful relative arm
GetAfterArm == last.op = "get_time" /\ last.res.tag = "Ok" /\ arm.set /\ ~arm.abs

\* C7 as stated: after a successful relative set_time(S), get_time reports
\* S's interval and an initial value <= S's, non-increasing from one get_time
\* to the next before expiration, and changes nothing in the kernel timer.
C7_GetTimeOriginal ==
    GetAfterArm =>
        /\ last.out.it_interval = arm.S.it_interval
        /\ TsLeq(last.out.it_value, arm.S.it_value)
        /\ ~last.preEver => last.out.it_value.tv_sec <= last.preGet
        /\ ktmr = last.pre

\* C7 amended: the initial value reported is <= S's initial value until the
\* first expiration after the arm, and <= S's interval from then on.
C7_GetTimeAmended ==
    GetAfterArm =>
        /\ last.out.it_interval = arm.S.it_interval
        /\ ~last.preEver => TsLeq(last.out.it_value, arm.S.it_value)
        /\ last.preEver => TsLeq(last.out.it_value, arm.S.it_interval)
        /\ ~last.preEver => last.out.it_value.tv_sec <= last.preGet
        /\ ktmr = last.pre

C7_Witness ==
    /\ GetAfterArm
    /\ last.preEver
    /\ arm.S.it_value.tv_sec > 0
    /\ ~TsLeq(last.out.it_value, arm.S.it_value)
    /\ last.out.it_interval = arm.S.it_interval

\* C8: once a non-blocking handle has been disarmed by a successful arm with a
\* zero initial value, every read_time returns Ok(None) until it is armed
\* again with a non-zero initial value.
C8_DisarmNoData ==
    (last.op = "read_time" /\ hnonblock /\ arm.set /\ arm.S.it_value = TimeSpec_zero)
        => last.res = OkNone

C8_Witness ==
    /\ last.op = "read_time"
    /\ hnonblock
    /\ arm.set
    /\ arm.prior
    /\ arm.S.it_value = TimeSpec_zero
    /\ arm.S.it_interval.tv_sec > 0
    /\ now > arm.at
    /\ last.res = OkNone

\* C9: a step of the iterator reads exactly once, yields the count when the
\* read returns one and nothing when the read has no data; after a one-shot
\* arm on a non-blocking handle the first next() after the expiration yields a
\* count >= 1 and every later one yields nothing until the handle is re-armed.
C9_IteratorStep ==
    last.op = "next" =>
        /\ last.nreads = 1
        /\ last.sys.ret = TIMERFD_DATA_SIZE =>
               (last.res = Some_(last.pre.ticks) /\ last.pre.ticks >= 1)
        /\ (last.sys.ret = -1 /\ last.sys.errno = "EAGAIN") => last.res = None_
        /\ OneShotArmed =>
               /\ (Elapsed /\ ~last.preGot) => (last.res.tag = "Some" /\ last.res.val >= 1)
               /\ last.preGot => last.res = None_

C9_Witness ==
    /\ last.op = "next"
    /\ OneShotArmed
    /\ last.preGot
    /\ last.res = None_

====
